---- MODULE Spec2Model ----
(***************************************************************************)
(* A model of the myls language server (crates/ls_core/src/lib.rs): the    *)
(* framing reader LServer::read, the dispatch loop LServer::run, the       *)
(* request handler LServer::message_response and the framing writers       *)
(* LServer::respond / LServer::respond_with_error.                         *)
(*                                                                         *)
(* Text is a sequence of tokens.  A token stands for a piece of text that  *)
(* none of the string operations of the code can cut: the characters the   *)
(* code searches for (":" "/" "-" CR LF, blanks, digits, quotes) are       *)
(* tokens of their own, every other token is a run of other characters.    *)
(* The length of a text is its number of tokens; the reader and the writer *)
(* both measure Content-Length in that unit.                               *)
(***************************************************************************)
EXTENDS Integers, Sequences, FiniteSets, TLC

VARIABLES
    stdin,          \* text sent by the client and not yet consumed by the server
    eof,            \* the client has closed the server's standard input
    stdout,         \* text printed by the server and not yet taken by the client
    state,          \* "Running", "Exited" (run returned) or "Panicked"
    pc,             \* where LServer::read stands: "read_line" or "read_exact"
    buf,            \* read's local String buf (line 272)
    content_length, \* read's local Option content_length: <<>> or <<n>>
    error_count,    \* run's local error_count (line 224)
    event,          \* what the last completed call of read and its dispatch did
    session,        \* which lifecycle requests were handled so far
    failed_reads,   \* how many calls of read in a row have returned Err
    sent,           \* what the client sent last, and where the server stood
    polls           \* parity of the calls of read_line in a row that returned
                    \* Ok(0) and left the header loop running

vars == <<stdin, eof, stdout, state, pc, buf, content_length, error_count,
          event, session, failed_reads, sent, polls>>

----------------------------------------------------------------------------
(* Tokens *)

CR == "\r"
LF == "\n"
SP == " "
COLON == ":"
SLASH == "/"
DASH == "-"
QUOTE == "\""
\* a byte that is not valid UTF-8
BadByte == "\\xFF"
\* what String::from_utf8_lossy puts for it
ReplacementChar == "U+FFFD"

Digits == <<"0", "1", "2", "3", "4", "5", "6", "7", "8", "9">>

DigitValue(t) == (CHOOSE i \in 1..10 : Digits[i] = t) - 1

IsDigit(t) == \E i \in 1..10 : Digits[i] = t

Whitespace == {SP, CR, LF, "\t"}

----------------------------------------------------------------------------
(* The string operations of std the code uses *)

\* the index of the first occurrence of token t in s, 0 when there is none
Find(s, t) ==
    IF \E i \in 1..Len(s) : s[i] = t
    THEN CHOOSE i \in 1..Len(s) : s[i] = t /\ \A j \in 1..(i - 1) : s[j] # t
    ELSE 0

\* the index of the last occurrence of token t in s, 0 when there is none
RFind(s, t) ==
    IF \E i \in 1..Len(s) : s[i] = t
    THEN CHOOSE i \in 1..Len(s) : s[i] = t /\ \A j \in (i + 1)..Len(s) : s[j] # t
    ELSE 0

Prefix(s, n) == SubSeq(s, 1, n)

Suffix(s, n) == SubSeq(s, n, Len(s))

starts_with(s, p) == Len(s) >= Len(p) /\ Prefix(s, Len(p)) = p

ends_with(s, p) == Len(s) >= Len(p) /\ Suffix(s, Len(s) - Len(p) + 1) = p

\* str::trim
RECURSIVE trim_start(_)
trim_start(s) ==
    IF s # <<>> /\ Head(s) \in Whitespace THEN trim_start(Tail(s)) ELSE s

RECURSIVE trim_end(_)
trim_end(s) ==
    IF s # <<>> /\ s[Len(s)] \in Whitespace
    THEN trim_end(Prefix(s, Len(s) - 1))
    ELSE s

trim(s) == trim_end(trim_start(s))

\* the decimal text of u32::MAX, the largest LSHeader::content_length
U32MaxText == <<"4", "2", "9", "4", "9", "6", "7", "2", "9", "5">>

\* the decimal text of i32::MAX, the largest JsonRpcRequestId::Integer
I32MaxText == <<"2", "1", "4", "7", "4", "8", "3", "6", "4", "7">>

\* the decimal text of the magnitude of i32::MIN
I32MinText == <<"2", "1", "4", "7", "4", "8", "3", "6", "4", "8">>

RECURSIVE StripZeros(_)
StripZeros(s) ==
    IF Len(s) > 1 /\ Head(s) = "0" THEN StripZeros(Tail(s)) ELSE s

\* a <= b for digit texts of one length
RECURSIVE LexLeq(_, _)
LexLeq(a, b) ==
    \/ a = <<>>
    \/ DigitValue(Head(a)) < DigitValue(Head(b))
    \/ Head(a) = Head(b) /\ LexLeq(Tail(a), Tail(b))

\* a <= b for digit texts without leading zeros
DecimalLeq(a, b) == Len(a) < Len(b) \/ (Len(a) = Len(b) /\ LexLeq(a, b))

IsDigits(s) == s # <<>> /\ \A i \in 1..Len(s) : IsDigit(s[i])

\* The value of a digit text.  The values of the model are small; the widths
\* of the program's integers are kept by comparing texts (DecimalLeq).
RECURSIVE DecimalValue(_)
DecimalValue(s) ==
    IF s = <<>> THEN 0
    ELSE 10 * DecimalValue(Prefix(s, Len(s) - 1)) + DigitValue(s[Len(s)])

\* str::parse::<u32>: <<n>> for Ok(n), <<>> for Err.  A leading "+" is
\* accepted; a sign alone, an empty text, any other character and a value
\* above u32::MAX are not.
parse_u32(s) ==
    LET d == IF s # <<>> /\ Head(s) = "+" THEN Tail(s) ELSE s
    IN  IF IsDigits(d) /\ DecimalLeq(StripZeros(d), U32MaxText)
        THEN <<DecimalValue(StripZeros(d))>>
        ELSE <<>>

\* whether a JSON number is an integer in the range of i32
FitsI32(text) ==
    IF text # <<>> /\ Head(text) = DASH
    THEN IsDigits(Tail(text)) /\ DecimalLeq(Tail(text), I32MinText)
    ELSE IsDigits(text) /\ DecimalLeq(text, I32MaxText)

\* the decimal text of a natural number, as format! and serde_json write it
RECURSIVE ToDecimal(_)
ToDecimal(n) ==
    IF n < 10 THEN <<Digits[n + 1]>>
    ELSE Append(ToDecimal(n \div 10), Digits[(n % 10) + 1])

\* the decimal text of an integer
ToSigned(n) == IF n < 0 THEN <<DASH>> \o ToDecimal(-n) ELSE ToDecimal(n)

----------------------------------------------------------------------------
(* JSON text *)

\* The JSON values a client puts in a body.  An object carries the four
\* members the message types read; "absent" marks a member that is left out.
\* an id is a number, given by its decimal text, or a string
NoId == [t |-> "absent", text |-> <<>>]

NullId == [t |-> "null", text |-> <<>>]

IntId(text) == [t |-> "int", text |-> text]

StrId(text) == [t |-> "str", text |-> text]

Params(t) == [t |-> t, uri |-> <<>>, line |-> 0, character |-> 0]

DefinitionParams(uri, line, character) ==
    [t |-> "definition", uri |-> uri, line |-> line, character |-> character]

JsonObject(jsonrpc, id, method, params) ==
    [t |-> "obj", jsonrpc |-> jsonrpc, id |-> id, method |-> method,
     params |-> params]

JsonNull == [t |-> "null", jsonrpc |-> "absent", id |-> NoId, method |-> <<>>,
             params |-> Params("absent")]

JsonNumber == [t |-> "num", jsonrpc |-> "absent", id |-> NoId, method |-> <<>>,
               params |-> Params("absent")]

RECURSIVE Join(_, _)
Join(texts, sep) ==
    IF texts = <<>> THEN <<>>
    ELSE IF Len(texts) = 1 THEN texts[1]
    ELSE texts[1] \o <<sep>> \o Join(Tail(texts), sep)

JsonString(content) == <<QUOTE>> \o content \o <<QUOTE>>

Member(key, text) == JsonString(<<key>>) \o <<COLON>> \o text

ObjectText(members) == <<"{">> \o Join(members, ",") \o <<"}">>

IdText(id) ==
    CASE id.t = "int" -> id.text
      [] id.t = "str" -> JsonString(id.text)
      [] OTHER -> <<"null">>

ParamsText(p) ==
    CASE p.t = "null" -> <<"null">>
      [] p.t = "emptyobj" -> ObjectText(<<>>)
      [] p.t = "init_ws" ->
            ObjectText(<<Member("capabilities",
                ObjectText(<<Member("workspace", ObjectText(<<>>))>>))>>)
      [] p.t = "init_ws_td" ->
            ObjectText(<<Member("capabilities",
                ObjectText(<<Member("workspace", ObjectText(<<>>)),
                             Member("textDocument",
                                ObjectText(<<Member("definition",
                                    ObjectText(<<Member("linkSupport",
                                                        <<"true">>)>>))>>))>>))>>)
      [] p.t = "init_bad" ->
            ObjectText(<<Member("capabilities", ObjectText(<<>>))>>)
      [] p.t = "definition" ->
            ObjectText(<<Member("textDocument",
                            ObjectText(<<Member("uri", JsonString(p.uri))>>)),
                         Member("position",
                            ObjectText(<<Member("line", ToDecimal(p.line)),
                                         Member("character",
                                                ToDecimal(p.character))>>))>>)
      [] OTHER -> <<>>

\* the text of a JSON value of a client
JsonText(v) ==
    CASE v.t = "null" -> <<"null">>
      [] v.t = "num" -> <<"7">>
      [] OTHER ->
            ObjectText(
                (IF v.jsonrpc = "absent" THEN <<>>
                 ELSE <<Member("jsonrpc",
                            IF v.jsonrpc = "num" THEN <<"2">>
                            ELSE JsonString(<<v.jsonrpc>>))>>)
                \o (IF v.id.t = "absent" THEN <<>>
                    ELSE <<Member("id", IdText(v.id))>>)
                \o (IF v.method = <<>> THEN <<>>
                    ELSE <<Member("method", JsonString(v.method[1]))>>)
                \o (IF v.params.t = "absent" THEN <<>>
                    ELSE <<Member("params", ParamsText(v.params))>>))

----------------------------------------------------------------------------
(* The message types and their derived deserializers *)

MethodInitialize == <<"initialize">>

MethodShutdown == <<"shutdown">>

MethodDefinition == <<"textDocument", SLASH, "definition">>

MethodInitialized == <<"initialized">>

MethodExit == <<"exit">>

\* Option<T> and Result<T, E> values are sequences: <<>> is None (or Err),
\* <<x>> is Some(x) (or Ok(x)).
None == <<>>

Some(x) == <<x>>

\* an LSMessageRequestBody or an LSMessageNotificationBody
Body(variant, method, params) ==
    [variant |-> variant, method |-> method, params |-> params]

NoBody == Body("none", <<>>, Params("absent"))

\* an LSMessage
Message(variant, id, body) == [variant |-> variant, id |-> id, body |-> body]

\* JsonRpcRequestId: a string, or a number that fits an i32
DeserializeRequestId(v) ==
    IF v.id.t = "str" \/ (v.id.t = "int" /\ FitsI32(v.id.text))
    THEN Some(v.id)
    ELSE None

\* JsonRpcMessageBase: the member jsonrpc must be a string
DeserializeBase(v) == v.jsonrpc \notin {"absent", "num"}

IsObjectParams(p) ==
    p.t \in {"emptyobj", "init_ws", "init_ws_td", "init_bad", "definition"}

\* LSMessageRequestBody: the variant tagged by the member method, when its
\* content in the member params fits; otherwise the untagged variant Unknown,
\* which any string method fits
DeserializeRequestBody(v) ==
    IF v.method = <<>> THEN None
    ELSE LET method == v.method[1]
             p == v.params
         IN  IF method = MethodInitialize /\ p.t \in {"init_ws", "init_ws_td"}
             THEN Some(Body("Initialize", method, p))
             ELSE IF method = MethodShutdown /\ p.t \in {"absent", "null"}
             THEN Some(Body("Shutdown", method, p))
             ELSE IF method = MethodDefinition /\ p.t = "definition"
             THEN Some(Body("TextDocumentDefinition", method, p))
             ELSE Some(Body("Unknown", method, p))

\* LSMessageNotificationBody with a variant that takes every other method, as
\* LSMessageRequestBody has in Unknown
DeserializeNotificationBody_WithUnknown(v) ==
    IF v.method = <<>> THEN None
    ELSE LET method == v.method[1]
             p == v.params
         IN  IF method = MethodInitialized /\ IsObjectParams(p)
             THEN Some(Body("Initialized", method, p))
             ELSE IF method = MethodExit /\ p.t \in {"absent", "null"}
             THEN Some(Body("Exit", method, p))
             ELSE Some(Body("Initialized", method, p))

\* LSMessageNotificationBody: Initialized {} needs an object as params,
\* the unit variant Exit needs params absent or null
DeserializeNotificationBody(v) ==
    IF v.method = <<>> THEN None
    ELSE LET method == v.method[1]
             p == v.params
         IN  IF method = MethodInitialized /\ IsObjectParams(p)
             THEN Some(Body("Initialized", method, p))
             ELSE IF method = MethodExit /\ p.t \in {"absent", "null"}
             THEN Some(Body("Exit", method, p))
             ELSE None

\* JsonRpcRequest<LSMessageRequestBody>
DeserializeRequest(v) ==
    IF /\ v.t = "obj"
       /\ DeserializeRequestId(v) # None
       /\ DeserializeRequestBody(v) # None
       /\ DeserializeBase(v)
    THEN Some(Message("Request", DeserializeRequestId(v)[1],
                      DeserializeRequestBody(v)[1]))
    ELSE None

\* JsonRpcNotification<LSMessageNotificationBody>
DeserializeNotification(v) ==
    IF /\ v.t = "obj"
       /\ DeserializeNotificationBody(v) # None
       /\ DeserializeBase(v)
    THEN Some(Message("Notification", NoId, DeserializeNotificationBody(v)[1]))
    ELSE None

\* the untagged enum LSMessage: the first variant, in declaration order, that
\* the value fits; the unit variant Response fits the JSON value null
DeserializeLSMessage(v) ==
    IF DeserializeRequest(v) # None THEN DeserializeRequest(v)
    ELSE IF DeserializeNotification(v) # None THEN DeserializeNotification(v)
    ELSE IF v.t = "null" THEN Some(Message("Response", NoId, NoBody))
    ELSE None

----------------------------------------------------------------------------
(* Responses and errors *)

Position(line, character) == [line |-> line, character |-> character]

\* LsTypeRange::range: the pairs are (row, column)
LsTypeRange_range(start, end) ==
    [start |-> Position(start[1], start[2]), end |-> Position(end[1], end[2])]

NoRange == LsTypeRange_range(<<0, 0>>, <<0, 0>>)

\* an LSMessageResponseBody
ResponseBody(variant, uri, range) ==
    [variant |-> variant, uri |-> uri, range |-> range]

\* LSMessageResponseInitialize::new with the arguments of line 335: the
\* capabilities and the server info do not depend on the client's capabilities
ResponseInitialize == ResponseBody("Initialize", <<>>, NoRange)

ResponseLocation(uri, range) == ResponseBody("Location", uri, range)

\* LSMessageResponseBody::RawType(LsType::Null)
ResponseNull == ResponseBody("RawType", <<>>, NoRange)

ResponseShutdown == ResponseBody("Shutdown", <<>>, NoRange)

\* an LSError: its variant and the text of its field
LSError(variant, text) == [variant |-> variant, text |-> text]

MethodNotFound(method) == LSError("MethodNotFound", method)

InvalidRequest(message) == LSError("InvalidRequest", message)

\* the text std::io::Error displays for a file that cannot be read
IoErrorText == <<"No such file or directory (os error 2)">>

\* LSError::code with the codes of InvalidRequest and MethodNotFound swapped
LSError_code_Swapped(err) ==
    CASE err.variant = "InternalError" -> -32603
      [] err.variant = "InvalidRequest" -> -32601
      [] err.variant = "MethodNotFound" -> -32600
      [] err.variant = "ParseError" -> -32700

\* LSError::code
LSError_code(err) ==
    CASE err.variant = "InternalError" -> -32603
      [] err.variant = "InvalidRequest" -> -32600
      [] err.variant = "MethodNotFound" -> -32601
      [] err.variant = "ParseError" -> -32700

\* LSError::message: the Display text of the #[error] attributes
LSError_message(err) ==
    CASE err.variant = "InternalError" ->
            <<"Internal error", COLON, SP>> \o err.text
      [] err.variant = "InvalidRequest" ->
            <<"Invalid request", COLON, SP>> \o err.text
      [] err.variant = "MethodNotFound" ->
            <<"Method not found", COLON, SP, "'">> \o err.text \o <<"'">>
      [] err.variant = "ParseError" ->
            <<"Parsing error", COLON, SP, "'">> \o err.text \o <<"'">>

\* LSMessageErrorBody::from
LSMessageErrorBody_from(kind) ==
    [code |-> LSError_code(kind), message |-> LSError_message(kind)]

NoErrorBody == [code |-> 0, message |-> <<>>]

\* LSMessageResponse::new
LSMessageResponse_new(id, body) ==
    [kind |-> "result", id |-> id, result |-> body, error |-> NoErrorBody,
     jsonrpc |-> "2.0"]

\* LSMessageError::new with the id left out of the echo
LSMessageError_new_FixedId(id, body) ==
    [kind |-> "error", id |-> IntId(<<"0">>), result |-> ResponseNull,
     error |-> body, jsonrpc |-> "2.0"]

\* LSMessageError::new
LSMessageError_new(id, body) ==
    [kind |-> "error", id |-> id, result |-> ResponseNull, error |-> body,
     jsonrpc |-> "2.0"]

PositionText(pos) ==
    ObjectText(<<Member("character", ToDecimal(pos.character)),
                 Member("line", ToDecimal(pos.line))>>)

\* ResponseBodyText with the client's capabilities answered back in place of
\* the server's
ResponseBodyText_EchoCapabilities(body) ==
    CASE body.variant = "Initialize" ->
            ObjectText(<<Member("capabilities",
                            ObjectText(<<Member("workspace",
                                                ObjectText(<<>>))>>)),
                         Member("serverInfo",
                            ObjectText(<<Member("name", JsonString(<<"myls">>)),
                                         Member("version",
                                                JsonString(<<"0.0.1">>))>>))>>)
      [] body.variant = "Location" ->
            ObjectText(<<Member("uri", JsonString(body.uri)),
                         Member("range",
                            ObjectText(<<Member("start",
                                                PositionText(body.range.start)),
                                         Member("end",
                                                PositionText(body.range.end))>>))>>)
      [] OTHER -> <<"null">>

\* serde_json::to_string of an LSMessageResponseBody: the untagged enum
\* writes its content alone, the unit variants Shutdown and LsType::Null
\* write null
ResponseBodyText(body) ==
    CASE body.variant = "Initialize" ->
            ObjectText(<<Member("capabilities",
                            ObjectText(<<Member("definitionProvider",
                                                <<"true">>)>>)),
                         Member("serverInfo",
                            ObjectText(<<Member("name", JsonString(<<"myls">>)),
                                         Member("version",
                                                JsonString(<<"0.0.1">>))>>))>>)
      [] body.variant = "Location" ->
            ObjectText(<<Member("uri", JsonString(body.uri)),
                         Member("range",
                            ObjectText(<<Member("start",
                                                PositionText(body.range.start)),
                                         Member("end",
                                                PositionText(body.range.end))>>))>>)
      [] OTHER -> <<"null">>

ErrorBodyText(error) ==
    ObjectText(<<Member("code", ToSigned(error.code)),
                 Member("message", JsonString(error.message))>>)

\* serde_json::to_string of an LSMessageResponse or an LSMessageError: the
\* fields in declaration order, the flattened base last
to_string(response) ==
    ObjectText(<<Member("id", IdText(response.id)),
                 IF response.kind = "result"
                 THEN Member("result", ResponseBodyText(response.result))
                 ELSE Member("error", ErrorBodyText(response.error)),
                 Member("jsonrpc", JsonString(<<response.jsonrpc>>))>>)

ContentLengthName == <<"Content-Length">>

\* the text both writers format (lines 314-316 and 324-326)
FormatResponse(response) ==
    LET text == to_string(response)
        content_length_text == ToDecimal(Len(text))
    IN  ContentLengthName \o <<COLON, SP>> \o content_length_text \o <<CR, LF>>
        \o ContentLengthName \o <<COLON, SP>> \o content_length_text \o <<CR, LF>>
        \o <<CR, LF>> \o text

\* println!: the text and a line feed
println(text) == text \o <<LF>>

\* LServer::respond: what it adds to standard output
respond(response) == println(FormatResponse(response))

\* LServer::respond_with_error: what it adds to standard output
respond_with_error(response) == println(FormatResponse(response))

----------------------------------------------------------------------------
(* URIs and the file store *)

FileScheme == <<"file", COLON, SLASH, SLASH>>

HtmlSuffix == <<".html">>

\* char::to_uppercase of the characters the model's file names begin with
to_uppercase(c) ==
    CASE c = "x" -> "X"
      [] c = "y" -> "Y"
      [] OTHER -> c

\* str::split: the pieces of s between the occurrences of sep
RECURSIVE split(_, _)
split(s, sep) ==
    IF Find(s, sep) = 0 THEN <<s>>
    ELSE <<Prefix(s, Find(s, sep) - 1)>> \o split(Suffix(s, Find(s, sep) + 1), sep)

\* lines 511-519: the part with its first character in upper case
Capitalize(part) ==
    IF part # <<>> THEN <<to_uppercase(Head(part))>> \o Tail(part) ELSE part

RECURSIVE Concat(_)
Concat(texts) == IF texts = <<>> THEN <<>> ELSE Head(texts) \o Concat(Tail(texts))

\* lines 509-520
Pascalify(filename) ==
    LET parts == split(filename, DASH)
    IN  Concat([i \in 1..Len(parts) |-> Capitalize(parts[i])])

\* line 521 with the first two endings in the other order
Endings_Swapped == <<<<"Directive">>, <<"Controller">>, <<>>>>

\* line 521
Endings == <<<<"Controller">>, <<"Directive">>, <<>>>>

\* LServer::get_controller_possible_uris
get_controller_possible_uris(uri) ==
    IF ~ends_with(uri, HtmlSuffix) THEN <<>>
    ELSE LET stripped == Prefix(uri, Len(uri) - Len(HtmlSuffix))
             cut == RFind(stripped, SLASH)
         IN  IF cut = 0 THEN <<>>
             ELSE LET pre == Prefix(stripped, cut - 1)
                      filename == Suffix(stripped, cut + 1)
                  IN  [i \in 1..Len(Endings) |->
                          pre \o <<SLASH>> \o Pascalify(filename) \o Endings[i]
                              \o <<".ts">>]

\* LServer::path_from_uri: Some(path), or None where the code reaches todo!()
\* and panics
path_from_uri(uri) ==
    IF starts_with(uri, FileScheme)
    THEN Some(Suffix(uri, Len(FileScheme) + 1))
    ELSE None

\* A file store is a function from the paths of its readable files to their
\* contents.  The contents of a file are what the grammars make of it: read as
\* markup, the node the cursor descends to (the column it starts at, the length
\* of its text, and the properties its text reads from vm, in the order of the
\* matches); read as TypeScript, whether it parses and its public field
\* definitions in document order.
FileContents(start_column, text_len, props, parses, fields) ==
    [start_column |-> start_column, text_len |-> text_len, props |-> props,
     parses |-> parses, fields |-> fields]

Field(name, start, end) == [name |-> name, start |-> start, end |-> end]

\* fs::read_to_string
read_to_string(files, path) ==
    IF path \in DOMAIN files THEN Some(files[path]) ELSE None

\* get_first_opening_file trying the uris from the last to the first
RECURSIVE get_first_opening_file_Last(_, _)
get_first_opening_file_Last(files, uris) ==
    IF uris = <<>> THEN None
    ELSE LET path == path_from_uri(uris[Len(uris)])
         IN  IF path # None /\ read_to_string(files, path[1]) # None
             THEN Some(<<uris[Len(uris)], read_to_string(files, path[1])[1]>>)
             ELSE get_first_opening_file_Last(files,
                                             Prefix(uris, Len(uris) - 1))

\* LServer::get_first_opening_file: Some(<<uri, contents>>) for the first uri
\* whose file can be read.  Every uri passed has the scheme of the request's
\* uri, which path_from_uri accepted before (line 351).
RECURSIVE get_first_opening_file(_, _)
get_first_opening_file(files, uris) ==
    IF uris = <<>> THEN None
    ELSE LET path == path_from_uri(Head(uris))
         IN  IF path # None /\ read_to_string(files, path[1]) # None
             THEN Some(<<Head(uris), read_to_string(files, path[1])[1]>>)
             ELSE get_first_opening_file(files, Tail(uris))

\* get_first_opening_file panics when path_from_uri does, on a uri it comes to
\* before it finds a readable file
RECURSIVE FirstOpeningFilePanics(_, _)
FirstOpeningFilePanics(files, uris) ==
    /\ uris # <<>>
    /\ LET path == path_from_uri(Head(uris))
       IN  \/ path = None
           \/ /\ read_to_string(files, path[1]) = None
              /\ FirstOpeningFilePanics(files, Tail(uris))

----------------------------------------------------------------------------
(* LServer::message_response *)

\* what a call of message_response ends in: Ok(body), Err(err) or a panic
Ok(body) == [t |-> "Ok", body |-> body, err |-> LSError("none", <<>>)]

Err(err) == [t |-> "Err", body |-> ResponseNull, err |-> err]

Panic == [t |-> "Panic", body |-> ResponseNull, err |-> LSError("none", <<>>)]

\* How the program was built and started: overflow_checks is the profile's
\* setting for integer overflow (on: the subtraction of line 380 panics when it
\* underflows, off: it wraps), debug_log says whether the tracing filter lets
\* debug events through, so that the arguments of debug! are evaluated.
Builds == [overflow_checks : BOOLEAN, debug_log : BOOLEAN]

\* lines 408-479: for each match of the vm query the companion is parsed and
\* the first public field definition, whatever its name, is returned with the
\* start of its name node as both ends of the range
LookupField(props, ts_file_uri, ts_contents) ==
    IF props # <<>> /\ ts_contents.parses /\ ts_contents.fields # <<>>
    THEN LET node == ts_contents.fields[1]
             start == node.start
             end == node.start
         IN  Ok(ResponseLocation(ts_file_uri, LsTypeRange_range(start, end)))
    ELSE Ok(ResponseNull)

\* lines 379-381: whether computing the cursor's offset in the node's text
\* panics.  When character is left of the node's start the subtraction
\* underflows: it panics with overflow checks, otherwise it wraps to an offset
\* far beyond the text.  The slice of line 381 is taken only when debug events
\* are enabled and panics when the offset lies beyond the text.
CursorAtPanics(position, node, build) ==
    IF position.character < node.start_column
    THEN build.overflow_checks \/ build.debug_log
    ELSE position.character - node.start_column > node.text_len /\ build.debug_log

\* lines 357-359 answering with an error
NoCompanion_Error ==
    Err(InvalidRequest(<<"Couldn't read TS", COLON, SP>> \o IoErrorText))

\* lines 357-359: what the handler returns when no companion can be read
NoCompanion == Ok(ResponseNull)

\* the arm TextDocumentDefinition with the markup file read (lines 351-355)
\* before the candidates are looked at (lines 348-350)
DefinitionResponse_ReadsFirst(uri, position, files, build) ==
    LET controller_uris == get_controller_possible_uris(uri)
    IN  IF path_from_uri(uri) = None THEN Panic
        ELSE IF read_to_string(files, path_from_uri(uri)[1]) = None
        THEN Err(InvalidRequest(<<"Couldn't read HTML", COLON, SP>> \o IoErrorText))
        ELSE IF controller_uris = <<>> THEN Ok(ResponseNull)
        ELSE IF FirstOpeningFilePanics(files, controller_uris) THEN Panic
        ELSE IF get_first_opening_file(files, controller_uris) = None
        THEN NoCompanion
        ELSE LET html_contents == read_to_string(files, path_from_uri(uri)[1])[1]
                 ts == get_first_opening_file(files, controller_uris)[1]
             IN  IF CursorAtPanics(position, html_contents, build)
                 THEN Panic
                 ELSE LookupField(html_contents.props, ts[1], ts[2])

\* lines 338-483: the arm TextDocumentDefinition
DefinitionResponse(uri, position, files, build) ==
    LET controller_uris == get_controller_possible_uris(uri)
    IN  IF controller_uris = <<>> THEN Ok(ResponseNull)
        ELSE IF path_from_uri(uri) = None THEN Panic
        ELSE IF read_to_string(files, path_from_uri(uri)[1]) = None
        THEN Err(InvalidRequest(<<"Couldn't read HTML", COLON, SP>> \o IoErrorText))
        ELSE IF FirstOpeningFilePanics(files, controller_uris) THEN Panic
        ELSE IF get_first_opening_file(files, controller_uris) = None
        THEN NoCompanion
        ELSE LET html_contents == read_to_string(files, path_from_uri(uri)[1])[1]
                 ts == get_first_opening_file(files, controller_uris)[1]
             IN  IF CursorAtPanics(position, html_contents, build)
                 THEN Panic
                 ELSE LookupField(html_contents.props, ts[1], ts[2])

\* LServer::message_response with the arm Shutdown answering like Initialize
message_response_ShutdownAsInitialize(request, files, build) ==
    CASE request.variant = "Initialize" -> Ok(ResponseInitialize)
      [] request.variant = "TextDocumentDefinition" ->
            DefinitionResponse(request.params.uri,
                               Position(request.params.line,
                                        request.params.character),
                               files, build)
      [] request.variant = "Shutdown" -> Ok(ResponseInitialize)
      [] request.variant = "Unknown" -> Err(MethodNotFound(request.method))

\* LServer::message_response
message_response(request, files, build) ==
    CASE request.variant = "Initialize" -> Ok(ResponseInitialize)
      [] request.variant = "TextDocumentDefinition" ->
            DefinitionResponse(request.params.uri,
                               Position(request.params.line,
                                        request.params.character),
                               files, build)
      [] request.variant = "Shutdown" -> Ok(ResponseShutdown)
      [] request.variant = "Unknown" -> Err(MethodNotFound(request.method))

----------------------------------------------------------------------------
(* What the client sends *)

\* the largest integer request id the client uses
MaxId == 1

\* the largest number of other header lines around Content-Length
MaxOtherHeaders == 1

\* the client adds to a frame the server is in the middle of only while the
\* header loop has buffered at most this many lines
MaxBufferedLines == 1

UriHtml == FileScheme \o <<SLASH, "a", SLASH, "x", DASH, "y", ".html">>

UriHttp == <<"http", COLON, SLASH, SLASH, "h", SLASH, "x", ".html">>

UriTxt == FileScheme \o <<SLASH, "a", SLASH, "x", ".txt">>

UriNoSlash == <<"x", ".html">>

UriHttpTxt == <<"http", COLON, SLASH, SLASH, "h", SLASH, "x", ".txt">>

Uris == {UriHtml, UriHttp, UriTxt, UriNoSlash, UriHttpTxt}

\* cursor columns: left of the markup node, inside it, beyond its text
Characters == {0, 2, 5}

PathOf(uri) == path_from_uri(uri)[1]

MarkupFile == FileContents(1, 3, <<"save">>, FALSE, <<>>)

MarkupFileNoVm == FileContents(1, 3, <<>>, FALSE, <<>>)

ControllerFile ==
    FileContents(0, 0, <<>>, TRUE,
                 <<Field("load", <<2, 4>>, <<2, 8>>),
                   Field("save", <<3, 4>>, <<3, 8>>)>>)

DirectiveFile ==
    FileContents(0, 0, <<>>, TRUE, <<Field("save", <<5, 2>>, <<5, 6>>)>>)

PlainFile == FileContents(0, 0, <<>>, TRUE, <<>>)

Candidate(i) == PathOf(get_controller_possible_uris(UriHtml)[i])

NoFiles == <<>>

FileStores ==
    { NoFiles,
      PathOf(UriHtml) :> MarkupFile,
      (PathOf(UriHtml) :> MarkupFile) @@ (Candidate(1) :> ControllerFile),
      (PathOf(UriHtml) :> MarkupFile) @@ (Candidate(2) :> DirectiveFile)
          @@ (Candidate(3) :> PlainFile),
      (PathOf(UriHtml) :> MarkupFile) @@ (Candidate(1) :> PlainFile)
          @@ (Candidate(2) :> DirectiveFile),
      (PathOf(UriHtml) :> MarkupFileNoVm) @@ (Candidate(3) :> DirectiveFile)
          @@ (PathOf(UriTxt) :> MarkupFile) }

Ids == {IntId(ToDecimal(i)) : i \in 1..MaxId} \cup {StrId(<<"a">>)}

Methods == {MethodInitialize, MethodShutdown, MethodDefinition,
            MethodInitialized, MethodExit, <<"foo", SLASH, "bar">>}

SimpleParams == {Params(t) : t \in {"absent", "null", "emptyobj", "init_ws",
                                    "init_ws_td", "init_bad"}}

\* objects with the envelope of a request or of a notification: every method
\* with every id and no params, and with every params for one id and for none
EnvelopeValues ==
    {JsonObject("2.0", id, Some(m), Params("absent")) :
        id \in Ids \cup {NoId}, m \in Methods}
    \cup {JsonObject("2.0", id, Some(m), p) :
            id \in {IntId(<<"1">>), NoId}, m \in Methods, p \in SimpleParams}

DefinitionValues ==
    {JsonObject("2.0", IntId(<<"1">>), Some(MethodDefinition),
                DefinitionParams(u, 0, c)) : u \in Uris, c \in Characters}
    \cup {JsonObject("2.0", id, Some(MethodDefinition),
                     DefinitionParams(UriHtml, 0, 2)) : id \in Ids}

\* values with a faulty envelope, and values that are no object
FaultValues ==
    {JsonNull, JsonNumber}
    \cup {JsonObject(j, id, Some(m), Params("absent")) :
            j \in {"absent", "num"}, id \in {IntId(<<"1">>), NoId},
            m \in {MethodShutdown, MethodExit}}
    \cup {JsonObject("2.0", id, Some(m), Params("absent")) :
            id \in {NullId, IntId(I32MinText)}, m \in {MethodShutdown, MethodExit}}
    \cup {JsonObject("2.0", IntId(<<"1">>), None, Params("absent"))}

JsonValues == EnvelopeValues \cup DefinitionValues \cup FaultValues

\* the text of every value, computed once
TextOf == [v \in JsonValues |-> JsonText(v)]

HeaderLine(name, value) == name \o <<COLON, SP>> \o value \o <<CR, LF>>

OtherHeader == HeaderLine(<<"Content-Type">>, <<"x">>)

ContentLengthHeader(n) == HeaderLine(ContentLengthName, ToDecimal(n))

RECURSIVE Repeat(_, _)
Repeat(text, n) == IF n = 0 THEN <<>> ELSE text \o Repeat(text, n - 1)

\* a header block and the body after it
Framed(headers, body) == headers \o <<CR, LF>> \o body

\* the bodies the faulty and the unusual frames carry
FramingBodies ==
    {TextOf[JsonObject("2.0", IntId(<<"1">>), Some(MethodShutdown), Params("absent"))],
     TextOf[JsonObject("2.0", NoId, Some(MethodExit), Params("absent"))]}

\* frames as the protocol describes them, with every body: Content-Length
\* alone, giving the length of the body
PlainFrames ==
    {Framed(ContentLengthHeader(Len(TextOf[v])), TextOf[v]) : v \in JsonValues}

\* frames as the protocol describes them, with other headers before or after
\* Content-Length
HeaderFrames ==
    {Framed(Repeat(OtherHeader, i) \o ContentLengthHeader(Len(b))
                \o Repeat(OtherHeader, j), b) :
        i \in 0..MaxOtherHeaders, j \in 0..MaxOtherHeaders, b \in FramingBodies}

\* complete frames that break the protocol
BadFrames ==
    UNION {{ Framed(OtherHeader, b),
             Framed(<<>>, b),
             Framed(<<"junk", CR, LF>>, b),
             Framed(HeaderLine(ContentLengthName, <<"x">>), b),
             Framed(<<BadByte, CR, LF>>, b),
             Framed(ContentLengthHeader(Len(b) - 1), b),
             Framed(ContentLengthHeader(Len(b) + 1), b),
             Framed(ContentLengthHeader(Len(b)), Prefix(b, Len(b) - 1) \o <<BadByte>>)
           } : b \in FramingBodies}

\* the beginning of a frame: a header line, or a piece of one
Pieces == {ContentLengthHeader(Len(b)) : b \in FramingBodies}
          \cup {OtherHeader, ContentLengthName}

\* what the client sends while the server stands in the middle of a frame
ResyncFrames == HeaderFrames \cup BadFrames

Frames == PlainFrames \cup HeaderFrames \cup BadFrames \cup Pieces

----------------------------------------------------------------------------
(* LServer::read *)

\* String::from_utf8_lossy
from_utf8_lossy(bytes) ==
    [i \in 1..Len(bytes) |->
        IF bytes[i] = BadByte THEN ReplacementChar ELSE bytes[i]]

\* serde_json::from_str::<LSMessage>: Some(message), or None for an error.
\* A text is JSON when it is the text of a JSON value.
from_str(content) ==
    IF \E v \in JsonValues : TextOf[v] = content
    THEN DeserializeLSMessage(CHOOSE v \in JsonValues : TextOf[v] = content)
    ELSE None

\* what one turn of the header loop decides
HeaderResult(next, length) == [next |-> next, content_length |-> length]

\* lines 280-293, with b the buffer after read_line has appended to it and
\* length the content length found so far: the loop ends ("break"), goes on
\* ("continue") or read returns ParseError::Header ("Header")
HeaderStep(b, length) ==
    IF Len(b) = 0 THEN HeaderResult("break", length)
    ELSE IF b = <<CR, LF>> THEN HeaderResult("break", length)
    ELSE IF Find(b, COLON) = 0 THEN HeaderResult("Header", length)
    ELSE LET name == Prefix(b, Find(b, COLON) - 1)
             value == Suffix(b, Find(b, COLON) + 1)
             found == IF name = ContentLengthName
                      THEN parse_u32(trim(value))
                      ELSE length
         IN  IF name = ContentLengthName /\ found = None
             THEN HeaderResult("Header", length)
             ELSE IF ends_with(b, <<CR, LF, CR, LF>>)
             THEN HeaderResult("break", found)
             ELSE HeaderResult("continue", found)

\* BufRead::read_line takes the bytes up to and including the first line
\* feed, or all bytes left when the input has ended
LineEnd(input) == IF Find(input, LF) > 0 THEN Find(input, LF) ELSE Len(input)

----------------------------------------------------------------------------
(* LServer::run *)

\* the threshold of line 260
ErrorThreshold == 10

\* line 258
CountFailure(count) == count + 1

\* line 228 left out: a success keeps the count
CountSuccess_Keep(count) == count

\* line 228
CountSuccess(count) == 0

\* lines 260-262 with the comparison one too late
BreaksAfterFailure_Late(count) == count > ErrorThreshold

\* lines 260-262: whether the loop ends after a failure
BreaksAfterFailure(count) == count = ErrorThreshold

NoMessage == Message("none", NoId, NoBody)

NoBuild == [overflow_checks |-> FALSE, debug_log |-> FALSE]

\* event: the outcome of the last call of read that returned and of its
\* dispatch.  kind is "none" before any, "failure" for Err, else the variant
\* of the message; error names the ParseError; written holds the responses
\* handed to the writers; files and build are the file store and the build the
\* handler ran with; count_before is error_count when read was called.
Event(kind, error, message, written, files, build, count_before) ==
    [kind |-> kind, error |-> error, message |-> message, written |-> written,
     files |-> files, build |-> build, count_before |-> count_before]

NoEvent == Event("none", "none", NoMessage, <<>>, NoFiles, NoBuild, 0)

\* sent: the frame, and whether the server had consumed all input before it
Sent(frame, at_boundary) == [frame |-> frame, at_boundary |-> at_boundary]

NothingSent == Sent(<<>>, FALSE)

Init ==
    /\ stdin = <<>>
    /\ eof = FALSE
    /\ stdout = <<>>
    /\ state = "Running"
    /\ pc = "read_line"
    /\ buf = <<>>
    /\ content_length = None
    /\ error_count = 0
    /\ event = NoEvent
    /\ session = "fresh"
    /\ failed_reads = 0
    /\ sent = NothingSent
    /\ polls = 0

\* read is blocked: the input holds less than the call in progress asks for
Blocked ==
    /\ state = "Running"
    /\ ~eof
    /\ \/ pc = "read_line" /\ Find(stdin, LF) = 0
       \/ pc = "read_exact" /\ Len(stdin) < content_length[1]

\* the server has consumed all input and waits for the first line of a frame
AtBoundary == pc = "read_line" /\ buf = <<>> /\ stdin = <<>>

\* the number of lines the header loop has buffered
BufferedLines == Cardinality({i \in 1..Len(buf) : buf[i] = LF})

\* The client takes what the server has printed and sends a frame.
Send ==
    /\ Blocked
    /\ AtBoundary \/ BufferedLines <= MaxBufferedLines
    /\ \E frame \in (IF AtBoundary THEN Frames ELSE ResyncFrames) :
            /\ stdin' = stdin \o frame
            /\ sent' = Sent(frame, AtBoundary)
    /\ stdout' = <<>>
    /\ event' = NoEvent
    /\ UNCHANGED <<eof, state, pc, buf, content_length, error_count, session,
                   failed_reads, polls>>

\* The client closes the server's standard input.
Close ==
    /\ Blocked
    /\ eof' = TRUE
    /\ stdout' = <<>>
    /\ event' = NoEvent
    /\ sent' = NothingSent
    /\ UNCHANGED <<stdin, state, pc, buf, content_length, error_count, session,
                   failed_reads, polls>>

\* lines 257-264: read returned Err(error)
Failure(error) ==
    /\ error_count' = CountFailure(error_count)
    /\ state' = IF BreaksAfterFailure(CountFailure(error_count))
                THEN "Exited" ELSE "Running"
    /\ event' = Event("failure", error, NoMessage, <<>>, NoFiles, NoBuild,
                      error_count)
    /\ pc' = "read_line"
    /\ buf' = <<>>
    /\ content_length' = None
    /\ failed_reads' = failed_reads + 1
    /\ polls' = 0
    /\ UNCHANGED <<stdout, session>>

\* One turn of the header loop of read (lines 274-294), and line 296 when the
\* loop ends.
ReadLine ==
    /\ state = "Running"
    /\ pc = "read_line"
    /\ Find(stdin, LF) > 0 \/ eof
    /\ LET line == Prefix(stdin, LineEnd(stdin))
           step == HeaderStep(buf \o line, content_length)
       IN  /\ stdin' = Suffix(stdin, LineEnd(stdin) + 1)
           /\ UNCHANGED <<eof, sent>>
           /\ IF \E i \in 1..Len(line) : line[i] = BadByte
              THEN Failure("Io")
              ELSE IF step.next = "Header"
              THEN Failure("Header")
              ELSE IF step.next = "break" /\ step.content_length = None
              THEN Failure("Header")
              ELSE /\ pc' = IF step.next = "break" THEN "read_exact" ELSE "read_line"
                   /\ buf' = IF step.next = "break" THEN <<>> ELSE buf \o line
                   /\ content_length' = step.content_length
                   /\ polls' = IF step.next = "continue" /\ line = <<>>
                               THEN 1 - polls ELSE 0
                   /\ UNCHANGED <<stdout, state, error_count, event, session,
                                  failed_reads>>


\* HandleRequest with a dispatcher that remembers the session: a request other
\* than initialize is refused with MethodNotFound unless an initialize was
\* handled and no shutdown since
HandleRequest_GatedBySession(request) ==
    \E files \in (IF request.body.variant = "TextDocumentDefinition"
                  THEN FileStores ELSE {NoFiles}),
       build \in (IF request.body.variant = "TextDocumentDefinition"
                  THEN Builds ELSE {NoBuild}) :
        LET result ==
                IF session = "initialized"
                   \/ request.body.variant \in {"Initialize", "Unknown"}
                THEN message_response(request.body, files, build)
                ELSE Err(MethodNotFound(request.body.method))
            response ==
                IF result.t = "Ok"
                THEN LSMessageResponse_new(request.id, result.body)
                ELSE LSMessageError_new(request.id,
                                        LSMessageErrorBody_from(result.err))
        IN  IF result.t = "Panic"
            THEN /\ state' = "Panicked"
                 /\ event' = Event("Request", "none", request, <<>>, files,
                                   build, error_count)
                 /\ UNCHANGED <<stdout, session>>
            ELSE /\ state' = "Running"
                 /\ stdout' = stdout \o (IF result.t = "Ok"
                                         THEN respond(response)
                                         ELSE respond_with_error(response))
                 /\ event' = Event("Request", "none", request, <<response>>,
                                   files, build, error_count)
                 /\ session' =
                        IF request.body.variant = "Shutdown" THEN "shutdown"
                        ELSE IF request.body.variant = "Initialize"
                                /\ session = "fresh"
                        THEN "initialized"
                        ELSE session

\* lines 230-245: a request is answered with the result or with the error of
\* message_response; a panic in it ends the process
HandleRequest(request) ==
    \E files \in (IF request.body.variant = "TextDocumentDefinition"
                  THEN FileStores ELSE {NoFiles}),
       build \in (IF request.body.variant = "TextDocumentDefinition"
                  THEN Builds ELSE {NoBuild}) :
        LET result == message_response(request.body, files, build)
            response ==
                IF result.t = "Ok"
                THEN LSMessageResponse_new(request.id, result.body)
                ELSE LSMessageError_new(request.id,
                                        LSMessageErrorBody_from(result.err))
        IN  IF result.t = "Panic"
            THEN /\ state' = "Panicked"
                 /\ event' = Event("Request", "none", request, <<>>, files,
                                   build, error_count)
                 /\ UNCHANGED <<stdout, session>>
            ELSE /\ state' = "Running"
                 /\ stdout' = stdout \o (IF result.t = "Ok"
                                         THEN respond(response)
                                         ELSE respond_with_error(response))
                 /\ event' = Event("Request", "none", request, <<response>>,
                                   files, build, error_count)
                 /\ session' =
                        IF request.body.variant = "Shutdown" THEN "shutdown"
                        ELSE IF request.body.variant = "Initialize"
                                /\ session = "fresh"
                        THEN "initialized"
                        ELSE session

\* lines 246-253 with no arm that breaks the loop
EndsLoop_Never(notification) == FALSE

\* lines 246-253: the notification that breaks the loop
EndsLoop(notification) == notification.variant = "Exit"

\* lines 246-253
HandleNotification(notification) ==
    /\ state' = IF EndsLoop(notification.body) THEN "Exited" ELSE "Running"
    /\ event' = Event("Notification", "none", notification, <<>>, NoFiles,
                      NoBuild, error_count)
    /\ UNCHANGED <<stdout, session>>

\* line 254: todo!() panics
HandleOther(message) ==
    /\ state' = "Panicked"
    /\ event' = Event(message.variant, "none", message, <<>>, NoFiles, NoBuild,
                      error_count)
    /\ UNCHANGED <<stdout, session>>

\* The rest of read (lines 298-308) and the turn of the loop of run that
\* handles what it returned (lines 226-264).
ReadExact ==
    /\ state = "Running"
    /\ pc = "read_exact"
    /\ Len(stdin) >= content_length[1] \/ eof
    /\ UNCHANGED <<eof, sent>>
    /\ IF Len(stdin) < content_length[1]
       THEN /\ stdin' = <<>>
            /\ Failure("Io")
       ELSE LET content == from_utf8_lossy(Prefix(stdin, content_length[1]))
                decoded == from_str(content)
            IN  /\ stdin' = Suffix(stdin, content_length[1] + 1)
                /\ IF decoded = None
                   THEN Failure("JsonParsing")
                   ELSE /\ error_count' = CountSuccess(error_count)
                        /\ failed_reads' = 0
                        /\ pc' = "read_line"
                        /\ buf' = <<>>
                        /\ content_length' = None
                        /\ polls' = 0
                        /\ CASE decoded[1].variant = "Request" ->
                                    HandleRequest(decoded[1])
                             [] decoded[1].variant = "Notification" ->
                                    HandleNotification(decoded[1])
                             [] OTHER -> HandleOther(decoded[1])

Next == Send \/ Close \/ ReadLine \/ ReadExact

Spec == Init /\ [][Next]_vars

----------------------------------------------------------------------------
(* LServer::read on an input that is complete and has ended *)

\* what a call of read comes to: t is "Ok", the name of the ParseError, or
\* "Spin" when the header loop never ends; rest is the input it leaves
ReadResult(t, message, rest) == [t |-> t, message |-> message, rest |-> rest]

\* the header loop (lines 274-294) from the buffer b and the content length
\* found so far
RECURSIVE HeaderLoop(_, _, _)
HeaderLoop(input, b, length) ==
    LET line == Prefix(input, LineEnd(input))
        rest == Suffix(input, LineEnd(input) + 1)
        step == HeaderStep(b \o line, length)
    IN  IF \E i \in 1..Len(line) : line[i] = BadByte
        THEN [t |-> "Io", content_length |-> length, rest |-> rest]
        ELSE IF step.next = "Header"
        THEN [t |-> "Header", content_length |-> length, rest |-> rest]
        ELSE IF step.next = "break"
        THEN [t |-> "break", content_length |-> step.content_length,
              rest |-> rest]
        ELSE IF line = <<>>
        THEN [t |-> "Spin", content_length |-> step.content_length,
              rest |-> rest]
        ELSE HeaderLoop(rest, b \o line, step.content_length)

\* LServer::read
read(input) ==
    LET headers == HeaderLoop(input, <<>>, None)
    IN  IF headers.t # "break"
        THEN ReadResult(headers.t, NoMessage, headers.rest)
        ELSE IF headers.content_length = None
        THEN ReadResult("Header", NoMessage, headers.rest)
        ELSE IF Len(headers.rest) < headers.content_length[1]
        THEN ReadResult("Io", NoMessage, <<>>)
        ELSE LET n == headers.content_length[1]
                 decoded == from_str(from_utf8_lossy(Prefix(headers.rest, n)))
             IN  IF decoded = None
                 THEN ReadResult("JsonParsing", NoMessage,
                                 Suffix(headers.rest, n + 1))
                 ELSE ReadResult("Ok", decoded[1], Suffix(headers.rest, n + 1))

----------------------------------------------------------------------------
(* Properties *)

\* whether the text sub occurs in the text s
Contains(s, sub) ==
    \E i \in 1..(Len(s) - Len(sub) + 1) : SubSeq(s, i, i + Len(sub) - 1) = sub

\* the part of an output after the first blank line
RECURSIVE AfterBlankLine(_)
AfterBlankLine(out) ==
    IF out = <<>> THEN <<>>
    ELSE IF starts_with(out, <<CR, LF, CR, LF>>) THEN Suffix(out, 5)
    ELSE AfterBlankLine(Tail(out))

\* the state of the server at the start of a turn of the loop of run with
\* no failure counted
FreshTurn ==
    /\ state = "Running"
    /\ pc = "read_line"
    /\ buf = <<>>
    /\ content_length = None
    /\ error_count = 0

HandledRequest == event.kind = "Request"

HandledVariant(variant) == HandledRequest /\ event.message.body.variant = variant

\* C1: every response written, result or error, carries the id of the
\* request that was just read: the response handed to the writer has that id,
\* and the text printed begins with that id's text.
C1_ResponseEchoesRequestId ==
    /\ event.written # <<>> => HandledRequest
    /\ \A i \in 1..Len(event.written) :
        /\ event.written[i].id = event.message.id
        /\ starts_with(AfterBlankLine(stdout),
                       <<"{">> \o Member("id", IdText(event.message.id)) \o <<",">>)

\* an error response to a request with a string id has been written
C1_Witness ==
    /\ HandledRequest
    /\ event.message.id = StrId(<<"a">>)
    /\ Len(event.written) = 1
    /\ event.written[1].kind = "error"
    /\ stdout # <<>>

\* C2: ten failed reads in a row bring the loop to Exited, and a failed read
\* writes no response and does not crash the process.
C2_TenFailuresExit ==
    /\ [](failed_reads = 10 => state = "Exited")
    /\ [](event.kind = "failure" => event.written = <<>> /\ state # "Panicked")
    /\ [][failed_reads' = failed_reads + 1 =>
            stdout' = stdout /\ state' # "Panicked"]_vars

\* the tenth failure in a row after a request had been answered
C2_Witness ==
    /\ failed_reads = 10
    /\ state = "Exited"
    /\ event.kind = "failure"
    /\ session # "fresh"

\* C3: a decoded exit notification takes the loop to Exited at once, whatever
\* came before, and in Exited nothing is read and nothing is written: no
\* step changes any variable.
C3_ExitTerminates ==
    /\ [](event.kind = "Notification" /\ event.message.body.variant = "Exit"
            => state = "Exited")
    /\ [][state = "Exited" => UNCHANGED vars]_vars

\* exit after failures, with no shutdown request ever handled
C3_Witness ==
    /\ event.kind = "Notification"
    /\ event.message.body.variant = "Exit"
    /\ state = "Exited"
    /\ session = "fresh"
    /\ event.count_before > 0

\* C4: a shutdown request is answered with a result of null and leaves the
\* server as any turn of the loop begins, so that the next message is read and
\* handled as without the shutdown.
C4_ShutdownAnswersNull ==
    HandledVariant("Shutdown") =>
        /\ Len(event.written) = 1
        /\ event.written[1].kind = "result"
        /\ AfterBlankLine(stdout) =
              println(ObjectText(<<Member("id", IdText(event.message.id)),
                                   Member("result", <<"null">>),
                                   Member("jsonrpc", JsonString(<<"2.0">>))>>))
        /\ FreshTurn

\* a request handled after a shutdown
C4_Witness ==
    /\ session = "shutdown"
    /\ HandledVariant("Initialize")
    /\ Len(event.written) = 1


\* C5: every decoded request, a textDocument/definition request on an
\* unreadable file or on a uri of another scheme included, gets exactly one
\* response, addressed to its id, and the loop stays Running; a decoded
\* notification gets none.
C5_EveryRequestAnswered ==
    /\ HandledRequest =>
        /\ Len(event.written) = 1
        /\ event.written[1].id = event.message.id
        /\ state = "Running"
    /\ event.kind = "Notification" => event.written = <<>>

ExitDecoded ==
    event.kind = "Notification" /\ event.message.body.variant = "Exit"

\* C6: the loop leaves Running only for Exited, and only when an exit
\* notification was decoded or the failure counter reached ten; Exited is
\* terminal.
C6_OnlyExitOrThreshold ==
    /\ [](state # "Running" =>
            /\ state = "Exited"
            /\ ExitDecoded \/ (event.kind = "failure" /\ error_count = 10))
    /\ [][state = "Exited" => UNCHANGED vars]_vars

KnownMethods == {MethodInitialize, MethodShutdown, MethodDefinition}

\* C7: a request whose method is none of initialize, shutdown and
\* textDocument/definition is answered with an error response whose code is
\* -32601 and whose message contains the method; the loop continues.
C7_UnknownMethodNotFound ==
    HandledRequest /\ event.message.body.method \notin KnownMethods =>
        /\ Len(event.written) = 1
        /\ event.written[1].kind = "error"
        /\ event.written[1].error.code = -32601
        /\ Contains(event.written[1].error.message, event.message.body.method)
        /\ Contains(AfterBlankLine(stdout),
                    Member("error",
                        <<"{">> \o Member("code", <<DASH, "3", "2", "6", "0", "1">>)
                        \o <<",">>))
        /\ Contains(AfterBlankLine(stdout),
                    Member("message",
                           JsonString(event.written[1].error.message)))
        /\ FreshTurn

\* the request foo/bar has been answered
C7_Witness ==
    /\ HandledRequest
    /\ event.message.body.method = <<"foo", SLASH, "bar">>
    /\ Len(event.written) = 1
    /\ stdout # <<>>
    /\ state = "Running"

\* the JSON value of the body of the frame sent last
SentValue == CHOOSE v \in JsonValues : TextOf[v] = AfterBlankLine(sent.frame)

\* the frame sent last was a frame with Content-Length alone, sent when the
\* server had consumed all input, and a call of read has returned since
ReadPlainFrame ==
    /\ sent.at_boundary
    /\ sent.frame \in PlainFrames
    /\ event # NoEvent

\* C8: the reader returns a Request, a Notification or a decode error, never
\* the Response variant; a body that is JSON with neither the shape of a
\* request nor that of a notification is a decode error that counts as one
\* failure.
C8_NeverResponseVariant ==
    /\ event.kind \in {"none", "failure", "Request", "Notification"}
    /\ ReadPlainFrame /\ DeserializeRequest(SentValue) = None
            /\ DeserializeNotification(SentValue) = None =>
        /\ event.kind = "failure"
        /\ event.error = "JsonParsing"
        /\ error_count = event.count_before + 1

\* C9: a frame whose header block holds a valid Content-Length and other
\* well-formed header lines before or after it is read successfully: the
\* message of its body is returned and nothing of the frame is left.
C9_OtherHeadersIgnored ==
    sent.at_boundary /\ sent.frame \in HeaderFrames /\ event # NoEvent =>
        /\ event.kind \in {"Request", "Notification"}
        /\ Some(event.message) = from_str(AfterBlankLine(sent.frame))
        /\ stdin = <<>>

\* C10: what a response puts on the output is one header line
\* Content-Length: <n>, CR LF, a blank line and the encoded body, with n the
\* length of the body and nothing before, between or after.
C10_ExactFraming ==
    event.written # <<>> =>
        stdout = Framed(ContentLengthHeader(Len(to_string(event.written[1]))),
                        to_string(event.written[1]))

\* C11: what the writer puts out for a response, given to the reader, is read
\* successfully as a message with the id and the body of the response.
C11_WriteThenRead ==
    event.written # <<>> =>
        /\ read(stdout).t = "Ok"
        /\ read(stdout).message.id = event.written[1].id
        /\ read(stdout).message.body = event.written[1].result

\* frames whose header block has no Content-Length: header lines, or none,
\* then the blank line and the body
NoLengthFrames ==
    {Framed(OtherHeader, b) : b \in FramingBodies}
    \cup {Framed(<<>>, b) : b \in FramingBodies}

\* C12: a message without a Content-Length header gets no response and
\* counts as one failure, and the read that fails takes the whole message,
\* headers and body, out of the stream.
C12_MissingLengthCountsOnce ==
    sent.at_boundary /\ sent.frame \in NoLengthFrames /\ event.kind = "failure" =>
        /\ event.written = <<>>
        /\ stdout = <<>>
        /\ error_count = event.count_before + 1
        /\ stdin = <<>>

\* the uri of the definition request handled last
RequestUri == event.message.body.params.uri

\* the file of uri can be read from the file store files
Readable(files, uri) ==
    starts_with(uri, FileScheme)
    /\ Suffix(uri, Len(FileScheme) + 1) \in DOMAIN files

\* a definition request on a markup file ending in .html that can be read
\* has been handled
HandledMarkup ==
    /\ HandledVariant("TextDocumentDefinition")
    /\ ends_with(RequestUri, HtmlSuffix)
    /\ Readable(event.files, RequestUri)

\* the text a result of null for the request handled last is printed as
NullResultText ==
    println(ObjectText(<<Member("id", IdText(event.message.id)),
                         Member("result", <<"null">>),
                         Member("jsonrpc", JsonString(<<"2.0">>))>>))

\* C13: a definition request on a readable markup file none of whose
\* companion candidates can be read is answered with a result of null, never
\* with an error.
C13_NoCompanionIsNull ==
    /\ HandledMarkup
    /\ \A i \in 1..3 :
            ~Readable(event.files, get_controller_possible_uris(RequestUri)[i])
    => /\ Len(event.written) = 1
       /\ event.written[1].kind = "result"
       /\ event.written[1].result = ResponseNull
       /\ AfterBlankLine(stdout) = NullResultText
       /\ state = "Running"

\* the markup file was read and no companion was there, with the cursor left
\* of the node in a build that checks overflow
C13_Witness ==
    /\ HandledMarkup
    /\ DOMAIN event.files = {PathOf(UriHtml)}
    /\ event.message.body.params.character = 0
    /\ event.build.overflow_checks
    /\ Len(event.written) = 1
    /\ event.written[1].kind = "result"

\* directories and file names of markup files: names of up to three
\* characters, with and without dashes and upper case
MarkupDirs ==
    {FileScheme \o <<SLASH, "a">>,
     FileScheme \o <<SLASH, "a", SLASH, "b">>,
     <<SLASH, "a", DASH, "b">>,
     <<"http", COLON, SLASH, SLASH, "h">>}

MarkupNames ==
    UNION {[1..n -> {"x", "y", "X", DASH}] : n \in 1..3}

\* the name split on "-", the first character of every segment in upper case,
\* the segments joined: the characters that are no dash, each in upper case
\* when it begins the name or follows a dash
Stem(name) ==
    LET upper(c) == IF c = "x" THEN "X" ELSE IF c = "y" THEN "Y" ELSE c
        stem[i \in 0..Len(name)] ==
            IF i = 0 THEN <<>>
            ELSE IF name[i] = DASH THEN stem[i - 1]
            ELSE IF i = 1 \/ name[i - 1] = DASH
            THEN Append(stem[i - 1], upper(name[i]))
            ELSE Append(stem[i - 1], name[i])
    IN  stem[Len(name)]

ExpectedCandidates(dir, name) ==
    <<dir \o <<SLASH>> \o Stem(name) \o <<"Controller", ".ts">>,
      dir \o <<SLASH>> \o Stem(name) \o <<"Directive", ".ts">>,
      dir \o <<SLASH>> \o Stem(name) \o <<".ts">>>>

\* the candidates the code derives for every markup uri <dir>/<name>.html
CandidatesOf ==
    [d \in MarkupDirs, n \in MarkupNames |->
        get_controller_possible_uris(d \o <<SLASH>> \o n \o HtmlSuffix)]

\* for every markup uri the code derives the three candidates expected
CandidatesAsExpected ==
    \A d \in MarkupDirs, n \in MarkupNames :
        CandidatesOf[d, n] = ExpectedCandidates(d, n)

\* C14: the candidates of <dir>/<name>.html are <dir>/<Stem>Controller.ts,
\* <dir>/<Stem>Directive.ts and <dir>/<Stem>.ts in this order, and a Location
\* returned for a request on such a uri names one of them.
C14_ThreeCandidatesInOrder ==
    /\ CandidatesAsExpected
    /\ \A i \in 1..Len(event.written) :
            event.written[i].result.variant = "Location" =>
                \E d \in MarkupDirs, n \in MarkupNames :
                    /\ RequestUri = d \o <<SLASH>> \o n \o HtmlSuffix
                    /\ \E k \in 1..3 :
                         event.written[i].result.uri = ExpectedCandidates(d, n)[k]

\* a request on /a/x-y.html was answered with a Location in /a/XYController.ts
C14_Witness ==
    /\ HandledMarkup
    /\ RequestUri = FileScheme \o <<SLASH, "a", SLASH, "x", DASH, "y", ".html">>
    /\ Len(event.written) = 1
    /\ event.written[1].result.variant = "Location"
    /\ event.written[1].result.uri =
            FileScheme \o <<SLASH, "a", SLASH, "X", "Y", "Controller", ".ts">>

\* the contents of the markup file and of the first readable companion of the
\* definition request handled last
MarkupOf == event.files[PathOf(RequestUri)]

FirstCompanion ==
    get_first_opening_file(event.files, get_controller_possible_uris(RequestUri))[1]

\* C15: when the expression under the cursor reads vm.<prop> and the first
\* readable companion has a public field named <prop>, the Location returned
\* is in that companion, at the declaration of the field named <prop>.
C15_LocationOfNamedField ==
    /\ HandledMarkup
    /\ event.written # <<>>
    /\ MarkupOf.props # <<>>
    /\ get_first_opening_file(event.files,
                              get_controller_possible_uris(RequestUri)) # None
    /\ \E i \in 1..Len(FirstCompanion[2].fields) :
            FirstCompanion[2].fields[i].name = MarkupOf.props[1]
    => /\ event.written[1].result.variant = "Location"
       /\ event.written[1].result.uri = FirstCompanion[1]
       /\ \E i \in 1..Len(FirstCompanion[2].fields) :
            /\ FirstCompanion[2].fields[i].name = MarkupOf.props[1]
            /\ event.written[1].result.range.start =
                    Position(FirstCompanion[2].fields[i].start[1],
                             FirstCompanion[2].fields[i].start[2])

\* the text the result of initialize is printed as for the request handled
\* last
InitializeResultText ==
    println(ObjectText(
        <<Member("id", IdText(event.message.id)),
          Member("result",
            ObjectText(
                <<Member("capabilities",
                    ObjectText(<<Member("definitionProvider", <<"true">>)>>)),
                  Member("serverInfo",
                    ObjectText(<<Member("name", JsonString(<<"myls">>)),
                                 Member("version", JsonString(<<"0.0.1">>))>>))>>)),
          Member("jsonrpc", JsonString(<<"2.0">>))>>))

\* C16: every initialize request with valid client capabilities is answered
\* with the result capabilities.definitionProvider true and serverInfo myls
\* 0.0.1, whatever the capabilities sent and whatever was handled before.
C16_InitializeResultFixed ==
    HandledVariant("Initialize") =>
        /\ event.message.body.params.t \in {"init_ws", "init_ws_td"}
        /\ Len(event.written) = 1
        /\ event.written[1].kind = "result"
        /\ event.written[1].result = ResponseInitialize
        /\ AfterBlankLine(stdout) = InitializeResultText
        /\ state = "Running"

\* initialize with text document capabilities, handled after a shutdown
C16_Witness ==
    /\ HandledVariant("Initialize")
    /\ event.message.body.params.t = "init_ws_td"
    /\ session = "shutdown"
    /\ stdout # <<>>

\* C17: the failure counter is the number of reads that have failed since the
\* last successful decode, a decoded request or notification sets it to zero,
\* it never exceeds ten, and failures end the loop only when it is ten.
C17_CounterCountsConsecutiveFailures ==
    /\ error_count = failed_reads
    /\ error_count <= 10
    /\ event.kind \in {"Request", "Notification"} => error_count = 0
    /\ state = "Running" => error_count < 10
    /\ state = "Exited" /\ event.kind = "failure" => error_count = 10

\* a request decoded after nine failures in a row, the loop still running
C17_Witness ==
    /\ HandledRequest
    /\ event.count_before = 9
    /\ error_count = 0
    /\ failed_reads = 0
    /\ state = "Running"

\* C18: once the input has ended, wherever the server stood, every step of
\* the server takes input, leaves the header loop, returns a failure from
\* read or ends the loop, so that each read returns after finitely many
\* steps and the loop ends; and ten reads that failed have ended it.
C18_EndedStreamExits ==
    /\ [][eof /\ state = "Running" =>
            \/ Len(stdin') < Len(stdin)
            \/ pc' # pc
            \/ failed_reads' = failed_reads + 1
            \/ state' # "Running"]_vars
    /\ [](eof /\ failed_reads = 10 => state = "Exited")

\* the candidates of the request handled last, and the positions of those
\* that can be read
RequestCandidates == get_controller_possible_uris(RequestUri)

ReadableCandidates ==
    {i \in 1..Len(RequestCandidates) :
        Readable(event.files, RequestCandidates[i])}

\* the position of the first candidate that can be read
FirstReadable ==
    CHOOSE i \in ReadableCandidates : \A j \in ReadableCandidates : i <= j

\* the contents of the candidate at position i
CandidateContents(i) ==
    event.files[Suffix(RequestCandidates[i], Len(FileScheme) + 1)]

\* C19: the companion used is the first of Controller, Directive, bare that
\* can be read: a Location returned names it, and when it declares no public
\* field the answer is null, whatever a later candidate holds.
C19_FirstReadableCandidateUsed ==
    HandledMarkup /\ event.written # <<>> =>
        /\ event.written[1].result.variant = "Location" =>
            /\ ReadableCandidates # {}
            /\ event.written[1].result.uri = RequestCandidates[FirstReadable]
        /\ ReadableCandidates # {}
                /\ CandidateContents(FirstReadable).fields = <<>> =>
            /\ event.written[1].kind = "result"
            /\ event.written[1].result = ResponseNull

\* the Controller candidate is read and declares nothing, the Directive
\* candidate declares the field asked for: the answer is null
C19_Witness ==
    /\ HandledMarkup
    /\ Len(event.written) = 1
    /\ ReadableCandidates = {1, 2}
    /\ CandidateContents(1).fields = <<>>
    /\ CandidateContents(2).fields # <<>>
    /\ CandidateContents(2).fields[1].name = MarkupOf.props[1]
    /\ event.written[1].result = ResponseNull

\* C20: the range of every Location returned spans the name of a public
\* field of the companion: its start is where the name node starts and its
\* end is where that node ends.
C20_RangeSpansName ==
    \A i \in 1..Len(event.written) :
        event.written[i].result.variant = "Location" =>
            \E k \in 1..Len(CandidateContents(FirstReadable).fields) :
                LET node == CandidateContents(FirstReadable).fields[k]
                IN  /\ event.written[i].result.range.start =
                            Position(node.start[1], node.start[2])
                    /\ event.written[i].result.range.end =
                            Position(node.end[1], node.end[2])

\* the uri has no candidates: it does not end in .html, or it has no
\* directory separator
NoCandidates(uri) ==
    \/ ~ends_with(uri, HtmlSuffix)
    \/ \A i \in 1..Len(uri) : uri[i] # SLASH

\* C21: a definition request on a uri that does not end in .html, or that has
\* no directory separator, is answered with a result of null, whatever its
\* scheme, whatever the file store holds and however the server was built;
\* it is never answered with an error and it never ends the server.
C21_NoCandidatesIsNull ==
    HandledVariant("TextDocumentDefinition") /\ NoCandidates(RequestUri) =>
        /\ Len(event.written) = 1
        /\ event.written[1].kind = "result"
        /\ event.written[1].result = ResponseNull
        /\ AfterBlankLine(stdout) = NullResultText
        /\ state = "Running"

\* a request on a .txt file that is there has been answered
C21_Witness ==
    /\ HandledVariant("TextDocumentDefinition")
    /\ RequestUri = FileScheme \o <<SLASH, "a", SLASH, "x", ".txt">>
    /\ Readable(event.files, RequestUri)
    /\ Len(event.written) = 1
    /\ stdout # <<>>


\* what message_response gives for the request just handled, from the request,
\* the files and the build alone
RequestOutcome ==
    message_response(event.message.body, event.files, event.build)

RequestResponse ==
    IF RequestOutcome.t = "Ok"
    THEN LSMessageResponse_new(event.message.id, RequestOutcome.body)
    ELSE LSMessageError_new(event.message.id,
                            LSMessageErrorBody_from(RequestOutcome.err))

\* C22: the dispatcher keeps no session state besides the failure counter.
\* Whatever was handled before (no initialize yet, an initialize, a shutdown,
\* any number of failed reads), the response written to a request is the one
\* message_response gives for that request and the file store alone, and a
\* request that ends the process does so in every session alike.
C22_ResponseIgnoresSession ==
    HandledRequest =>
        IF RequestOutcome.t = "Panic"
        THEN event.written = <<>> /\ stdout = <<>> /\ state = "Panicked"
        ELSE /\ event.written = <<RequestResponse>>
             /\ stdout = println(FormatResponse(RequestResponse))
             /\ state = "Running"

\* a definition request answered with a Location after a shutdown was handled
C22_Witness ==
    /\ HandledVariant("TextDocumentDefinition")
    /\ session = "shutdown"
    /\ Len(event.written) = 1
    /\ event.written[1].kind = "result"
    /\ event.written[1].result # ResponseNull
    /\ stdout # <<>>

\* the same before any initialize
C22_WitnessFresh ==
    /\ HandledVariant("TextDocumentDefinition")
    /\ session = "fresh"
    /\ Len(event.written) = 1
    /\ event.written[1].kind = "result"
    /\ event.written[1].result # ResponseNull


\* a JSON object with the member jsonrpc, no member id and a method that is
\* neither initialized nor exit
UnknownNotification(v) ==
    /\ v.t = "obj"
    /\ v.jsonrpc = "2.0"
    /\ v.id = NoId
    /\ v.method # <<>>
    /\ v.method[1] \notin {MethodInitialized, MethodExit}

\* C23: a well-formed notification whose method is neither initialized nor
\* exit is a decode failure: nothing is written, the failure counter is one
\* higher than before it, and the one that brings the counter to ten, as the
\* tenth in a row does, ends the loop.
C23_UnknownNotificationFails ==
    ReadPlainFrame /\ UnknownNotification(SentValue) =>
        /\ event.kind = "failure"
        /\ event.error = "JsonParsing"
        /\ event.written = <<>>
        /\ stdout = <<>>
        /\ stdin = <<>>
        /\ error_count = event.count_before + 1
        /\ failed_reads = error_count
        /\ state = (IF error_count = ErrorThreshold THEN "Exited" ELSE "Running")

\* the notification foo/bar read as the tenth failure in a row ends the loop
C23_Witness ==
    /\ ReadPlainFrame
    /\ UnknownNotification(SentValue)
    /\ SentValue.method = Some(<<"foo", SLASH, "bar">>)
    /\ event.kind = "failure"
    /\ event.count_before = ErrorThreshold - 1
    /\ state = "Exited"

====
